---------------------------- MODULE Spec2Model ----------------------------
(***************************************************************************)
(* A model of src/src/tcp_analysis.rs: the TCP options decoder             *)
(* (parse_tcp_options), the timestamp extractor (extract_timestamp), the   *)
(* risk assessor (assess_timestamp_risk), the timestamp synthesizer        *)
(* (generate_spoofed_timestamp) and the stripper (strip_timestamp_option). *)
(*                                                                         *)
(* All of them are pure functions of their arguments.  Each is an operator *)
(* computed as the code computes it, and the state machine is a caller     *)
(* that picks one function and one argument and runs it.  The decoder's    *)
(* while loop is also run one iteration per step, so that its cursor and   *)
(* its reads of the buffer are states of the model.                        *)
(*                                                                         *)
(* Indices are 0-based as in the code: the Rust slice element s[i] is      *)
(* s[i + 1] here.  A u32 is a record [hi, lo] of two 16-bit halves, value  *)
(* hi * 2^16 + lo, because the model checker's integers are 32-bit signed  *)
(* and cannot hold every u32.                                              *)
(***************************************************************************)
EXTENDS Integers, Sequences, FiniteSets, TLC

---------------------------------------------------------------------------
(* Bounds of the model. *)

\* Every byte sequence over ByteAlphabet up to this length is an input.
MaxRawLen == 4

\* Every concatenation of at most this many of the Chunks is an input.
MaxChunks == 4

\* Every timestamp value 0..MaxSmallTs is an input of the risk assessor,
\* and every multiple of 50 up to 50 * MaxFifties.
MaxSmallTs == 1100
MaxFifties == 250

---------------------------------------------------------------------------
(* TcpOptionType and its conversion from a byte. *)

EndOfOptionList == [tag |-> "EndOfOptionList"]
NoOperation == [tag |-> "NoOperation"]
MaximumSegmentSize == [tag |-> "MaximumSegmentSize"]
WindowScale == [tag |-> "WindowScale"]
SackPermitted == [tag |-> "SackPermitted"]
Sack == [tag |-> "Sack"]
Timestamp == [tag |-> "Timestamp"]
Unknown(val) == [tag |-> "Unknown", val |-> val]

TcpOptionType_from(value) ==
    CASE value = 0 -> EndOfOptionList
      [] value = 1 -> NoOperation
      [] value = 2 -> MaximumSegmentSize
      [] value = 3 -> WindowScale
      [] value = 4 -> SackPermitted
      [] value = 5 -> Sack
      [] value = 8 -> Timestamp
      [] OTHER -> Unknown(value)

TcpOption(kind, length, data) == [kind |-> kind, length |-> length, data |-> data]

---------------------------------------------------------------------------
(* parse_tcp_options. *)

\* The read data[i] is in bounds; Rust panics on a read that is not.
InBounds(data, i) == 0 <= i /\ i < Len(data)
At(data, i) == data[i + 1]

\* The slice data[from..to] as a vector; in bounds when from <= to <= len.
SliceInBounds(data, from, to) == from <= to /\ to <= Len(data)
Slice_with_header(data, from, to) == SubSeq(data, from - 1, to)
Slice(data, from, to) == SubSeq(data, from + 1, to)

\* The three malformations of a non-padding option at cursor p.
TruncatedLength_off_by_one(data, p) == p + 1 > Len(data)
TruncatedLength(data, p) == p + 1 >= Len(data)
InvalidLength_zero_only(length) == length < 1
InvalidLength(length) == length < 2
Overrun(data, p, length) == p + length > Len(data)

\* The cursor after an option of the given length.
Advance(p, length) == p + length

\* One iteration of the while loop, entered with p < data.len(): the cursor
\* and the options after it, why the loop stopped ("" when it goes on), and
\* whether a read of the buffer panicked.
parse_iter(data, p, opts) ==
    LET kind == TcpOptionType_from(At(data, p))
        go(p2, opts2) == [pos |-> p2, options |-> opts2, stop |-> "", panic |-> FALSE]
        halt(why) == [pos |-> p, options |-> opts, stop |-> why, panic |-> FALSE]
        panic == [pos |-> p, options |-> opts, stop |-> "", panic |-> TRUE]
    IN  IF ~InBounds(data, p) THEN panic
        ELSE IF kind = EndOfOptionList THEN halt("end_of_list")
        ELSE IF kind = NoOperation
            THEN go(p + 1, Append(opts, TcpOption(kind, 1, <<>>)))
        ELSE IF TruncatedLength(data, p) THEN halt("truncated")
        ELSE IF ~InBounds(data, p + 1) THEN panic
        ELSE LET length == At(data, p + 1) IN
            IF InvalidLength(length) THEN halt("invalid_length")
            ELSE IF Overrun(data, p, length) THEN halt("overrun")
            ELSE IF length > 2
                THEN IF SliceInBounds(data, p + 2, p + length)
                     THEN go(Advance(p, length),
                             Append(opts, TcpOption(kind, length,
                                                    Slice(data, p + 2, p + length))))
                     ELSE panic
            ELSE go(Advance(p, length), Append(opts, TcpOption(kind, length, <<>>)))

\* The whole loop from cursor p: the record of the iteration that ended it.
\* The fuel n bounds the iterations by the buffer's length plus one.
RECURSIVE parse_loop(_, _, _, _)
parse_loop(data, p, opts, n) ==
    IF ~(p < Len(data))
    THEN [pos |-> p, options |-> opts, stop |-> "end", panic |-> FALSE]
    ELSE LET r == parse_iter(data, p, opts) IN
         IF r.panic \/ r.stop # "" THEN r
         ELSE IF n = 0 THEN [r EXCEPT !.stop = "diverged"]
         ELSE parse_loop(data, r.pos, r.options, n - 1)

parse_run(data) == parse_loop(data, 0, <<>>, Len(data) + 1)

parse_tcp_options(data) == parse_run(data).options

---------------------------------------------------------------------------
(* strip_timestamp_option. *)

kind_byte_unknown_lost(kind) ==
    CASE kind = EndOfOptionList -> 0
      [] kind = NoOperation -> 1
      [] kind = MaximumSegmentSize -> 2
      [] kind = WindowScale -> 3
      [] kind = SackPermitted -> 4
      [] kind = Sack -> 5
      [] kind = Timestamp -> 8
      [] OTHER -> 0

kind_byte(kind) ==
    CASE kind = EndOfOptionList -> 0
      [] kind = NoOperation -> 1
      [] kind = MaximumSegmentSize -> 2
      [] kind = WindowScale -> 3
      [] kind = SackPermitted -> 4
      [] kind = Sack -> 5
      [] kind = Timestamp -> 8
      [] OTHER -> kind.val

\* The filter of the for loop: which options are kept.
Kept_wrong_kind(option) == option.kind # MaximumSegmentSize
Kept(option) == option.kind # Timestamp

\* The bytes the for loop pushes for one kept option.
encode_option_length_always(option) ==
    <<kind_byte(option.kind), option.length>> \o option.data

encode_option_data_len(option) ==
    IF option.kind = EndOfOptionList \/ option.kind = NoOperation
    THEN <<kind_byte(option.kind)>>
    ELSE <<kind_byte(option.kind), Len(option.data)>> \o option.data

encode_option(option) ==
    IF option.kind = EndOfOptionList \/ option.kind = NoOperation
    THEN <<kind_byte(option.kind)>>
    ELSE <<kind_byte(option.kind), option.length>> \o option.data

\* The for loop over the options: the result before padding.
RECURSIVE encode_kept(_)
encode_kept(opts) ==
    IF opts = <<>> THEN <<>>
    ELSE (IF Kept(Head(opts)) THEN encode_option(Head(opts)) ELSE <<>>)
         \o encode_kept(Tail(opts))

\* The padding byte and the condition of the padding loop.
PadByte == 0
NeedsPad_half(res) == Len(res) % 2 # 0
NeedsPad(res) == Len(res) % 4 # 0

RECURSIVE pad(_)
pad(res) == IF NeedsPad(res) THEN pad(Append(res, PadByte)) ELSE res

strip_timestamp_option(original_options) ==
    pad(encode_kept(parse_tcp_options(original_options)))

---------------------------------------------------------------------------
(* u32 arithmetic.  A u32 is [hi, lo], its value hi * 2^16 + lo. *)

U32(hi, lo) == [hi |-> hi, lo |-> lo]

\* The product of two 16-bit values as a u32; no partial result exceeds 2^25.
mul16(x, y) ==
    LET p0 == (x % 256) * y
        p1 == (x \div 256) * y
        low == p0 + (p1 % 256) * 256
    IN  U32(p1 \div 256 + low \div 65536, low % 65536)

\* u32::wrapping_add
saturating_add(a, b) ==
    LET low == a.lo + b.lo
        high == a.hi + b.hi + low \div 65536
    IN  IF high > 65535 THEN U32(65535, 65535) ELSE U32(high, low % 65536)

wrapping_add(a, b) ==
    LET low == a.lo + b.lo
    IN  U32((a.hi + b.hi + low \div 65536) % 65536, low % 65536)

\* u32::wrapping_mul
wrapping_mul(a, b) ==
    LET ll == mul16(a.lo, b.lo)
        cross == mul16(a.hi, b.lo).lo + mul16(a.lo, b.hi).lo
    IN  U32((ll.hi + cross) % 65536, ll.lo)

\* The u32 remainder a % m for a modulus m of at most 1000.
U32Rem(a, m) == (((a.hi % m) * (65536 % m)) + (a.lo % m)) % m

\* The u32 comparison a < n for n below 2^16.
U32Less(a, n) == a.hi = 0 /\ a.lo < n

\* u32::from_be_bytes
from_le_bytes(b0, b1, b2, b3) == U32(b3 * 256 + b2, b1 * 256 + b0)
from_be_bytes(b0, b1, b2, b3) == U32(b0 * 256 + b1, b2 * 256 + b3)

TcpTimestamp(ts_val, ts_ecr) == [ts_val |-> ts_val, ts_ecr |-> ts_ecr]

\* Option<T>
None == [some |-> FALSE]
Some(v) == [some |-> TRUE, value |-> v]

---------------------------------------------------------------------------
(* extract_timestamp. *)

extract_timestamp(o) ==
    IF o.kind # Timestamp \/ Len(o.data) # 8 THEN None
    ELSE LET ts_val == from_be_bytes(At(o.data, 0), At(o.data, 1),
                                     At(o.data, 2), At(o.data, 3))
             ts_ecr == from_be_bytes(At(o.data, 4), At(o.data, 5),
                                     At(o.data, 6), At(o.data, 7))
         IN  Some(TcpTimestamp(ts_val, ts_ecr))

---------------------------------------------------------------------------
(* assess_timestamp_risk. *)

common_hz_values_no_250 == <<100, 300, 1000>>
common_hz_values == <<100, 250, 300, 1000>>

RegularPeriod == 1000
SmallThreshold == 10000

\* The risk returned and the return statement that returned it.
assess_timestamp_risk(t) ==
    LET ts_val == t.ts_val IN
    IF ts_val = U32(0, 0)
        THEN [risk |-> "Low", branch |-> "disabled"]
    ELSE IF \E i \in DOMAIN common_hz_values : U32Rem(ts_val, common_hz_values[i]) = 0
        THEN [risk |-> "High", branch |-> "common_hz"]
    ELSE IF U32Rem(ts_val, RegularPeriod) = 0
        THEN [risk |-> "Medium", branch |-> "regular"]
    ELSE IF U32Less(ts_val, SmallThreshold)
        THEN [risk |-> "High", branch |-> "small"]
    ELSE [risk |-> "Medium", branch |-> "default"]

---------------------------------------------------------------------------
(* analyze_tcp_packet. *)

\* The three locals before the for loop.
analysis_start == [has_timestamp |-> FALSE, timestamp |-> None, fingerprint_risk |-> "Low"]

\* One iteration of the for loop on option o.
analyze_option(acc, o) ==
    IF o.kind = Timestamp
    THEN LET t == extract_timestamp(o) IN
         [has_timestamp |-> TRUE,
          timestamp |-> t,
          fingerprint_risk |-> IF t.some THEN assess_timestamp_risk(t.value).risk
                                         ELSE acc.fingerprint_risk]
    ELSE acc

\* The for loop over the options, from the locals acc.
RECURSIVE analyze_loop(_, _)
analyze_loop(opts, acc) ==
    IF opts = <<>> THEN acc
    ELSE analyze_loop(Tail(opts), analyze_option(acc, Head(opts)))

\* The fields of the TcpAnalysisResult for the decoded options opts.
analyze_options(opts) ==
    LET a == analyze_loop(opts, analysis_start) IN
    [has_timestamp |-> a.has_timestamp, timestamp |-> a.timestamp,
     options |-> opts, fingerprint_risk |-> a.fingerprint_risk]

analyze_tcp_packet(data) == analyze_options(parse_tcp_options(data))

---------------------------------------------------------------------------
(* generate_spoofed_timestamp. *)

\* 1103515245 = 16838 * 2^16 + 20077
LcgMultiplier == U32(16838, 20077)
LcgIncrement == U32(0, 12345)
OffsetModulus == 1000

random_offset(b) ==
    U32(0, U32Rem(wrapping_add(wrapping_mul(b, LcgMultiplier), LcgIncrement),
                  OffsetModulus))

generate_spoofed_timestamp(b, inc) ==
    LET spoofed_ts_val == wrapping_add(wrapping_add(b, inc), random_offset(b))
    IN  TcpTimestamp(spoofed_ts_val, U32(0, 0))

---------------------------------------------------------------------------
(* The inputs of the decoder and the stripper. *)

ByteAlphabet == {0, 1, 2, 3, 4, 8, 255}

NOP == <<1>>
EOL == <<0>>
MSS == <<2, 4, 5, 180>>
TSOPT == <<8, 10, 18, 52, 86, 120, 135, 101, 67, 33>>
TSOPT_TICK == <<8, 10, 0, 0, 0, 100, 0, 0, 0, 7>>
UNKNOWN_OPT == <<254, 3, 8>>
TSOPT_CUT == <<8, 10, 18, 52>>
TSOPT_EMPTY == <<8, 2>>

Chunks == {NOP, EOL, MSS, TSOPT, TSOPT_TICK, UNKNOWN_OPT, TSOPT_CUT, TSOPT_EMPTY}

RECURSIVE SeqsUpTo(_, _)
SeqsUpTo(S, n) ==
    IF n = 0 THEN {<<>>}
    ELSE LET shorter == SeqsUpTo(S, n - 1)
         IN  shorter \cup {Append(s, x) : s \in shorter, x \in S}

RECURSIVE ConcatsUpTo(_, _)
ConcatsUpTo(S, n) ==
    IF n = 0 THEN {<<>>}
    ELSE LET shorter == ConcatsUpTo(S, n - 1)
         IN  shorter \cup {s \o c : s \in shorter, c \in S}

Inputs == SeqsUpTo(ByteAlphabet, MaxRawLen) \cup ConcatsUpTo(Chunks, MaxChunks)

\* The inputs of extract_timestamp: options of several kinds whose data is
\* empty, too short, too long, or two 4-byte words.
Words == {<<0, 0, 0, 0>>, <<18, 52, 86, 120>>, <<135, 101, 67, 33>>,
          <<255, 255, 255, 255>>, <<0, 0, 0, 100>>, <<0, 1, 0, 0>>, <<1, 2, 3, 4>>}

DataSamples ==
    {<<>>, <<18, 52, 86, 120>>, <<1, 2, 3, 4, 5, 6, 7>>, <<1, 2, 3, 4, 5, 6, 7, 8, 9>>}
    \cup {w1 \o w2 : w1 \in Words, w2 \in Words}

KindSamples == {Timestamp, MaximumSegmentSize, NoOperation, Unknown(8), Unknown(9)}

OptionSamples ==
    {TcpOption(k, IF k = NoOperation THEN 1 ELSE 2 + Len(d), d) :
        k \in KindSamples, d \in DataSamples}

\* The inputs of assess_timestamp_risk: every value up to MaxSmallTs, every
\* multiple of 50 up to 50 * MaxFifties, the values around the threshold and
\* large ones: 999999, 2^31, 3000000000, 4294967000 and 2^32 - 1.
TsValSamples ==
    {U32(0, n) : n \in 0..MaxSmallTs}
    \cup {U32(0, 50 * k) : k \in 0..MaxFifties}
    \cup {U32(0, 5000), U32(0, 9999), U32(0, 10000), U32(0, 10001), U32(0, 65535),
          U32(1, 0), U32(15, 16959), U32(32768, 0), U32(45776, 24064),
          U32(65535, 65240), U32(65535, 65535)}

TsEcrSamples == {U32(0, 0), U32(34661, 17185)}

\* The inputs of generate_spoofed_timestamp.
BaseSamples ==
    {U32(h, l) : h \in {0, 1, 4660, 32767, 32768, 65535},
                 l \in {0, 1, 2, 1000, 22136, 65535}}

IncrementSamples ==
    {U32(0, 0), U32(0, 1), U32(0, 55), U32(0, 1000), U32(0, 65535), U32(1, 0),
     U32(32768, 0), U32(65535, 65535)}

---------------------------------------------------------------------------
(* The state machine. *)

VARIABLES
    pc,            \* what the caller is doing
    options_data,  \* the buffer handed to the decoder or the stripper
    pos,           \* parse_tcp_options: the cursor
    options,       \* parse_tcp_options: the options decoded so far
    stop,          \* parse_tcp_options: why the loop ended
    result,        \* strip_timestamp_option: the bytes returned
    option,        \* extract_timestamp: the option handed in
    timestamp,     \* extract_timestamp: the Option<TcpTimestamp> returned
    ts,            \* assess_timestamp_risk: the timestamp handed in
    fingerprint_risk,  \* assess_timestamp_risk: the risk returned
    branch,        \* assess_timestamp_risk: the return statement taken
    base_time,     \* generate_spoofed_timestamp: first argument
    increment,     \* generate_spoofed_timestamp: second argument
    spoofed,       \* generate_spoofed_timestamp: the timestamp returned
    has_timestamp  \* analyze_tcp_packet: the has_timestamp field returned

codecVars == <<options_data, pos, options, stop, result>>
extractVars == <<option, timestamp>>
assessVars == <<ts, fingerprint_risk, branch>>
generateVars == <<base_time, increment, spoofed>>
vars == <<pc, codecVars, extractVars, assessVars, generateVars, has_timestamp>>

Init ==
    /\ pc = "idle"
    /\ options_data = <<>>
    /\ pos = 0
    /\ options = <<>>
    /\ stop = ""
    /\ result = <<>>
    /\ option = TcpOption(NoOperation, 1, <<>>)
    /\ timestamp = None
    /\ ts = TcpTimestamp(U32(0, 0), U32(0, 0))
    /\ fingerprint_risk = "Low"
    /\ branch = ""
    /\ base_time = U32(0, 0)
    /\ increment = U32(0, 0)
    /\ spoofed = TcpTimestamp(U32(0, 0), U32(0, 0))
    /\ has_timestamp = FALSE

\* parse_tcp_options(b) is called: lines 110-111.
ParseCall ==
    /\ pc = "idle"
    /\ \E b \in Inputs : options_data' = b
    /\ pc' = "scan"
    /\ pos' = 0
    /\ options' = <<>>
    /\ UNCHANGED <<stop, result, extractVars, assessVars, generateVars, has_timestamp>>

\* One test of the while condition and, when it holds, one run of the body.
ParseStep ==
    /\ pc = "scan"
    /\ IF pos < Len(options_data)
       THEN LET r == parse_iter(options_data, pos, options) IN
            /\ pos' = r.pos
            /\ options' = r.options
            /\ stop' = r.stop
            /\ pc' = IF r.panic THEN "panic"
                     ELSE IF r.stop # "" THEN "parsed" ELSE "scan"
       ELSE /\ stop' = "end"
            /\ pc' = "parsed"
            /\ UNCHANGED <<pos, options>>
    /\ UNCHANGED <<options_data, result, extractVars, assessVars, generateVars, has_timestamp>>

\* strip_timestamp_option(b), the whole function.
Strip ==
    /\ pc = "idle"
    /\ \E b \in Inputs :
        /\ options_data' = b
        /\ LET r == parse_run(b) IN
            /\ pos' = r.pos
            /\ options' = r.options
            /\ stop' = r.stop
            /\ IF r.panic
               THEN pc' = "panic" /\ UNCHANGED result
               ELSE pc' = "stripped" /\ result' = strip_timestamp_option(b)
    /\ UNCHANGED <<extractVars, assessVars, generateVars, has_timestamp>>

\* extract_timestamp(o), the whole function.
Extract ==
    /\ pc = "idle"
    /\ \E o \in OptionSamples :
        /\ option' = o
        /\ timestamp' = extract_timestamp(o)
    /\ pc' = "extracted"
    /\ UNCHANGED <<codecVars, assessVars, generateVars, has_timestamp>>

\* assess_timestamp_risk(t), the whole function.
Assess ==
    /\ pc = "idle"
    /\ \E v \in TsValSamples, e \in TsEcrSamples :
        LET t == TcpTimestamp(v, e) IN
        /\ ts' = t
        /\ fingerprint_risk' = assess_timestamp_risk(t).risk
        /\ branch' = assess_timestamp_risk(t).branch
    /\ pc' = "assessed"
    /\ UNCHANGED <<codecVars, extractVars, generateVars, has_timestamp>>

\* generate_spoofed_timestamp(b, inc), the whole function.
Generate ==
    /\ pc = "idle"
    /\ \E b \in BaseSamples, inc \in IncrementSamples :
        /\ base_time' = b
        /\ increment' = inc
        /\ spoofed' = generate_spoofed_timestamp(b, inc)
    /\ pc' = "generated"
    /\ UNCHANGED <<codecVars, extractVars, assessVars, has_timestamp>>

\* analyze_tcp_packet(b), the whole function; the options field of the
\* result is the variable options.
Analyze ==
    /\ pc = "idle"
    /\ \E b \in Inputs :
        /\ options_data' = b
        /\ LET r == parse_run(b) IN
            /\ pos' = r.pos
            /\ options' = r.options
            /\ stop' = r.stop
            /\ IF r.panic
               THEN pc' = "panic" /\ UNCHANGED <<has_timestamp, timestamp, fingerprint_risk>>
               ELSE LET a == analyze_tcp_packet(b) IN
                    /\ pc' = "analyzed"
                    /\ has_timestamp' = a.has_timestamp
                    /\ timestamp' = a.timestamp
                    /\ fingerprint_risk' = a.fingerprint_risk
    /\ UNCHANGED <<result, option, ts, branch, generateVars>>

Next == ParseCall \/ ParseStep \/ Strip \/ Extract \/ Assess \/ Generate \/ Analyze

Spec == Init /\ [][Next]_vars

FairSpec == Spec /\ WF_vars(ParseStep)

---------------------------------------------------------------------------
(* Definitions the properties are stated with. *)

IsTimestamp(o) == o.kind = Timestamp

WithoutTimestamps(opts) == SelectSeq(opts, LAMBDA o : ~IsTimestamp(o))

CountTimestamps(opts) == Cardinality({i \in DOMAIN opts : IsTimestamp(opts[i])})

\* b followed by zero bytes up to the next multiple of 4.
RePadded(b) == b \o [i \in 1..((4 - (Len(b) % 4)) % 4) |-> 0]

\* The buffer read as a run of options with End-of-List taken as a one-byte
\* option like No-Operation: the 0-based offsets at which an option starts,
\* or {-1} when the bytes from p on are not a run of whole options.
RECURSIVE OptionStarts(_, _)
OptionStarts(b, p) ==
    IF p = Len(b) THEN {}
    ELSE IF b[p + 1] \in {0, 1}
        THEN LET rest == OptionStarts(b, p + 1)
             IN  IF -1 \in rest THEN {-1} ELSE {p} \cup rest
    ELSE IF p + 1 >= Len(b) \/ b[p + 2] < 2 \/ p + b[p + 2] > Len(b) THEN {-1}
    ELSE LET rest == OptionStarts(b, p + b[p + 2])
         IN  IF -1 \in rest THEN {-1} ELSE {p} \cup rest

\* Only whole options, none of them a Timestamp.
OnlyOptionsNoTimestamp(b) ==
    LET starts == OptionStarts(b, 0)
    IN  -1 \notin starts /\ \A p \in starts : b[p + 1] # 8

\* The bytes before the first End-of-List option (all of b without one).
BeforeEndOfList(b) ==
    LET eols == {p \in OptionStarts(b, 0) : b[p + 1] = 0}
    IN  IF eols = {} THEN b
        ELSE SubSeq(b, 1, CHOOSE p \in eols : \A q \in eols : p <= q)

\* The byte at cursor p is a non-padding kind whose option is malformed.
MalformedAt(b, p) ==
    /\ p < Len(b)
    /\ b[p + 1] \notin {0, 1}
    /\ \/ Len(b) - p < 2
       \/ b[p + 2] < 2
       \/ p + b[p + 2] > Len(b)

\* The four bytes of a u32, most significant first.
BigEndianBytes(x) == <<x.hi \div 256, x.hi % 256, x.lo \div 256, x.lo % 256>>

IsU32(x) == x.hi \in 0..65535 /\ x.lo \in 0..65535

\* The value of a u32 modulo m, for m up to 1000.
ValueMod(x, m) == (((x.hi % m) * 65536) + x.lo) % m

\* The four base-256 digits of a u32 and of a number below 2^31, least
\* significant first.
DigitsOfU32(x) == <<x.lo % 256, x.lo \div 256, x.hi % 256, x.hi \div 256>>
DigitsOf(n) == <<n % 256, (n \div 256) % 256, (n \div 65536) % 256, n \div 16777216>>

\* (a * k + c) mod 2^32 by long multiplication on digits.
DigitsMulAdd(a, k, c) ==
    LET s1 == a[1] * k[1] + c[1]
        s2 == a[1] * k[2] + a[2] * k[1] + c[2] + s1 \div 256
        s3 == a[1] * k[3] + a[2] * k[2] + a[3] * k[1] + c[3] + s2 \div 256
        s4 == a[1] * k[4] + a[2] * k[3] + a[3] * k[2] + a[4] * k[1] + c[4] + s3 \div 256
    IN  <<s1 % 256, s2 % 256, s3 % 256, s4 % 256>>

\* (a + b + c) mod 2^32 by long addition on digits.
DigitsAdd3(a, b, c) ==
    LET s1 == a[1] + b[1] + c[1]
        s2 == a[2] + b[2] + c[2] + s1 \div 256
        s3 == a[3] + b[3] + c[3] + s2 \div 256
        s4 == a[4] + b[4] + c[4] + s3 \div 256
    IN  <<s1 % 256, s2 % 256, s3 % 256, s4 % 256>>

\* The number of digits d modulo 1000.
DigitsMod1000(d) ==
    (d[1] + 256 * d[2] + (65536 % 1000) * d[3] + (16777216 % 1000) * d[4]) % 1000

\* (base + increment + (((base * 1103515245 + 12345) mod 2^32) mod 1000)) mod 2^32
ExpectedSpoofedDigits(b, inc) ==
    LET mixed == DigitsMulAdd(DigitsOfU32(b), DigitsOf(1103515245), DigitsOf(12345))
    IN  DigitsAdd3(DigitsOfU32(b), DigitsOfU32(inc), DigitsOf(DigitsMod1000(mixed)))

---------------------------------------------------------------------------
(* Properties. *)

\* C1: decoding the bytes strip_timestamp_option returns never yields an
\* option of kind Timestamp, however many the input held.
C1_NoTimestampAfterStrip ==
    pc = "stripped" =>
        \A i \in DOMAIN parse_tcp_options(result) :
            parse_tcp_options(result)[i].kind # Timestamp

C1_Witness ==
    /\ pc = "stripped"
    /\ CountTimestamps(options) >= 2
    /\ parse_tcp_options(result) # <<>>

\* C2: the returned buffer's length is a multiple of 4, it starts with the
\* kept options' bytes, and every byte after them is 0.
C2_PaddedWithZeros ==
    pc = "stripped" =>
        LET kept == encode_kept(options) IN
        /\ Len(result) % 4 = 0
        /\ Len(result) >= Len(kept)
        /\ Len(result) - Len(kept) < 4
        /\ SubSeq(result, 1, Len(kept)) = kept
        /\ \A i \in (Len(kept) + 1)..Len(result) : result[i] = 0

C2_Witness ==
    /\ pc = "stripped"
    /\ Len(encode_kept(options)) % 4 = 1
    /\ Len(result) = Len(encode_kept(options)) + 3
    /\ CountTimestamps(options) = 1

\* C3: decoding the stripped buffer gives the input's options without the
\* Timestamp ones: same order, same kind, length byte and data.
C3_StripIsFilter ==
    pc = "stripped" =>
        parse_tcp_options(result) = WithoutTimestamps(parse_tcp_options(options_data))

C3_Witness ==
    /\ pc = "stripped"
    /\ options_data = MSS \o TSOPT \o NOP \o EOL
    /\ parse_tcp_options(result) =
         <<TcpOption(MaximumSegmentSize, 4, <<5, 180>>), TcpOption(NoOperation, 1, <<>>)>>

\* C4 as claimed: a buffer of whole options, none a Timestamp, comes back as
\* the input re-padded to a 4-byte boundary.
C4_Original ==
    pc = "stripped" /\ OnlyOptionsNoTimestamp(options_data) =>
        result = RePadded(options_data)

\* C4 as amended: such a buffer comes back as its bytes before the first
\* End-of-List option (all of it when it has none), re-padded with zeros to
\* a 4-byte boundary.
C4_RoundTripUpToEndOfList ==
    pc = "stripped" /\ OnlyOptionsNoTimestamp(options_data) =>
        result = RePadded(BeforeEndOfList(options_data))

C4_Witness ==
    /\ pc = "stripped"
    /\ OnlyOptionsNoTimestamp(options_data)
    /\ \E p \in OptionStarts(options_data, 0) : options_data[p + 1] = 0
    /\ options # <<>>
    /\ result = RePadded(BeforeEndOfList(options_data))
    /\ result # RePadded(options_data)

\* C5: stripping the stripped buffer again returns the same bytes.
C5_Idempotent ==
    pc = "stripped" => strip_timestamp_option(result) = result

C5_Witness ==
    /\ pc = "stripped"
    /\ CountTimestamps(options) >= 1
    /\ result # <<>>
    /\ result # options_data
    /\ strip_timestamp_option(result) = result

\* C6: the decoder never panics on a read, its cursor never passes the end
\* of the buffer and strictly increases on every iteration that does not stop
\* the scan, and every scan ends with the options returned.
C6_DecoderTotal ==
    /\ [](pc # "panic" /\ pos <= Len(options_data))
    /\ [][pc = "scan" /\ pc' = "scan" => pos' > pos]_vars
    /\ (pc = "scan") ~> (pc = "parsed")

C6_Witness ==
    /\ pc = "parsed"
    /\ Len(options_data) = 40
    /\ Len(options) = 4
    /\ pos = 40

\* C7: a malformed option at the cursor stops the scan with the cursor and
\* the options as they were, and what is returned is the decoding of the
\* bytes before the cursor.
C7_MalformedStops ==
    /\ [][pc = "scan" /\ MalformedAt(options_data, pos) =>
            pc' = "parsed" /\ pos' = pos /\ options' = options
            /\ stop' \in {"truncated", "invalid_length", "overrun"}]_vars
    /\ [](pc = "parsed" /\ stop \in {"truncated", "invalid_length", "overrun"} =>
            /\ MalformedAt(options_data, pos)
            /\ options = parse_tcp_options(Slice(options_data, 0, pos))
            /\ parse_run(Slice(options_data, 0, pos)).stop = "end")

C7_Witness ==
    /\ pc = "parsed"
    /\ stop = "overrun"
    /\ Len(options) = 2
    /\ pos + 4 = Len(options_data)

\* C8: extract_timestamp returns a value exactly when the option's kind is
\* Timestamp and its data is 8 bytes long, and then ts_val and ts_ecr are the
\* big-endian u32 of data[0..4] and of data[4..8]; the data 12 34 56 78
\* 87 65 43 21 gives 0x12345678 and 0x87654321.
C8_ExtractTimestamp ==
    pc = "extracted" =>
        /\ timestamp.some <=> (option.kind = Timestamp /\ Len(option.data) = 8)
        /\ timestamp.some =>
            /\ IsU32(timestamp.value.ts_val) /\ IsU32(timestamp.value.ts_ecr)
            /\ BigEndianBytes(timestamp.value.ts_val) = SubSeq(option.data, 1, 4)
            /\ BigEndianBytes(timestamp.value.ts_ecr) = SubSeq(option.data, 5, 8)
        /\ (option.kind = Timestamp
                /\ option.data = <<18, 52, 86, 120, 135, 101, 67, 33>>) =>
            timestamp = Some(TcpTimestamp(U32(4660, 22136), U32(34661, 17185)))

C8_Witness ==
    /\ pc = "extracted"
    /\ option = TcpOption(Timestamp, 10, <<18, 52, 86, 120, 135, 101, 67, 33>>)
    /\ timestamp.some
    /\ timestamp.value.ts_val = U32(4660, 22136)
    /\ timestamp.value.ts_ecr = U32(34661, 17185)

\* C9: assess_timestamp_risk returns Low for 0, otherwise High when ts_val
\* is divisible by 100, 250, 300 or 1000 or is below 10000, otherwise Medium;
\* never Critical, and never by the "ts_val % 1000 == 0" return.
C9_RiskRule ==
    pc = "assessed" =>
        LET v == ts.ts_val
            divisible(m) == ValueMod(v, m) = 0
            expected ==
                IF v = U32(0, 0) THEN "Low"
                ELSE IF \/ divisible(100) \/ divisible(250)
                        \/ divisible(300) \/ divisible(1000)
                        \/ (v.hi = 0 /\ v.lo < 10000)
                    THEN "High"
                ELSE "Medium"
        IN  /\ fingerprint_risk = expected
            /\ fingerprint_risk # "Critical"
            /\ branch # "regular"
            /\ v = U32(0, 0) => fingerprint_risk = "Low"
            /\ v \in {U32(0, 100), U32(0, 250), U32(0, 5000)} => fingerprint_risk = "High"
            /\ v = U32(15, 16959) => fingerprint_risk = "Medium"

C9_Witness ==
    /\ pc = "assessed"
    /\ ts.ts_val = U32(0, 12000)
    /\ fingerprint_risk = "High"
    /\ branch = "common_hz"

\* C10: generate_spoofed_timestamp returns ts_ecr = 0 and ts_val =
\* (base + increment + (((base * 1103515245 + 12345) mod 2^32) mod 1000))
\* mod 2^32, a u32 for every input; base = 0, increment = 0 gives 345.
C10_SpoofedValue ==
    pc = "generated" =>
        /\ spoofed.ts_ecr = U32(0, 0)
        /\ IsU32(spoofed.ts_val)
        /\ DigitsOfU32(spoofed.ts_val) = ExpectedSpoofedDigits(base_time, increment)
        /\ (base_time = U32(0, 0) /\ increment = U32(0, 0)) =>
            spoofed.ts_val = U32(0, 345)

C10_Witness ==
    /\ pc = "generated"
    /\ base_time = U32(65535, 65535)
    /\ increment = U32(65535, 65535)
    /\ spoofed.ts_val.hi = 0
    /\ spoofed.ts_val.lo < 1000

\* C11: the ts_val generate_spoofed_timestamp returns is not divisible by
\* any of 100, 250, 300 or 1000, the tick rates the risk assessor flags.
C11_AvoidsTickRates ==
    pc = "generated" =>
        \A hz \in {100, 250, 300, 1000} : ValueMod(spoofed.ts_val, hz) # 0

\* The options without the Timestamp options that come before the last one.
WithoutEarlierTimestamps(opts) ==
    LET last == CHOOSE i \in DOMAIN opts :
                    IsTimestamp(opts[i]) /\ \A j \in DOMAIN opts : IsTimestamp(opts[j]) => j <= i
        keep == {i \in DOMAIN opts : ~IsTimestamp(opts[i]) \/ i = last}
        RECURSIVE pick(_)
        pick(i) == IF i > Len(opts) THEN <<>>
                   ELSE (IF i \in keep THEN <<opts[i]>> ELSE <<>>) \o pick(i + 1)
    IN  pick(1)

\* C12: when the decoded options hold a Timestamp option, has_timestamp is
\* true and the timestamp and fingerprint_risk returned are those of the same
\* options analysed without the Timestamp options before the last one.
C12_LastTimestampOnly ==
    pc = "analyzed" /\ CountTimestamps(options) >= 1 =>
        LET alone == analyze_options(WithoutEarlierTimestamps(options)) IN
        /\ has_timestamp
        /\ timestamp = alone.timestamp
        /\ fingerprint_risk = alone.fingerprint_risk

\* The 0-based offset in the buffer at which option i of opts starts: the
\* lengths of the options before it.
RECURSIVE OptionOffset(_, _)
OptionOffset(opts, i) ==
    IF i <= 1 THEN 0 ELSE OptionOffset(opts, i - 1) + opts[i - 1].length

\* C13: every option the decoder holds or returns is well-formed: never an
\* End-of-List; a No-Operation with length 1 and no data; any other with the
\* length byte read from the input, which is at least 2 and 2 more than its
\* data's length.  An End-of-List byte at an option boundary stops the scan
\* with nothing added, whatever follows it.
C13_OptionsWellFormed ==
    /\ [](pc \in {"scan", "parsed", "stripped", "analyzed"} =>
            /\ \A i \in DOMAIN options :
                LET o == options[i]
                    off == OptionOffset(options, i)
                IN  /\ o.kind # EndOfOptionList
                    /\ off < Len(options_data)
                    /\ kind_byte(o.kind) = options_data[off + 1]
                    /\ o.kind = NoOperation => o.length = 1 /\ o.data = <<>>
                    /\ o.kind # NoOperation =>
                        /\ o.length >= 2
                        /\ o.length = 2 + Len(o.data)
                        /\ o.length = options_data[off + 2]
                        /\ o.data = SubSeq(options_data, off + 3, off + o.length)
            /\ OptionOffset(options, Len(options) + 1) = pos
            /\ stop = "end_of_list" => pos < Len(options_data) /\ options_data[pos + 1] = 0)
    /\ [][pc = "scan" /\ pos < Len(options_data) /\ options_data[pos + 1] = 0 =>
            pc' = "parsed" /\ stop' = "end_of_list" /\ options' = options /\ pos' = pos]_vars

C13_Witness ==
    /\ pc = "parsed"
    /\ stop = "end_of_list"
    /\ pos + 1 < Len(options_data)
    /\ \E i \in DOMAIN options : options[i].kind = NoOperation
    /\ \E i \in DOMAIN options : Len(options[i].data) = 8
    /\ \E i \in DOMAIN options : options[i].kind = Unknown(254) /\ options[i].length = 3

============================================================================
